---- MODULE Spec2Model ----
(***************************************************************************)
(* Nano Banana Slack bot: the Cloudflare Worker's webhook handler, its     *)
(* KV-backed de-duplication, the event classifier and the background task  *)
(* (src/src/translate.ts from line 61 on, src/src/slack.ts).               *)
(*                                                                         *)
(* One background task is one entry of `tasks`.  The only resource tasks   *)
(* share is the KV namespace nano_banana_dedup (`store`), so a task takes  *)
(* one step per KV operation (get, put) and one step for each stretch of   *)
(* code between them; calls to Slack and to the generative API are         *)
(* external and answer nondeterministically.                               *)
(***************************************************************************)
EXTENDS Naturals, Integers, Sequences, FiniteSets, TLC

VARIABLES env, world, tasks, store, hist, http, call

vars == <<env, world, tasks, store, hist, http, call>>

----------------------------------------------------------------------------
(* Bounds of the model and constants of the program *)

\* deliveries (background tasks) in one behaviour
MaxTasks == 3
\* seconds that pass in one step of the clock
TickSeconds == 150
\* ages of a key are counted up to this many seconds (then "that or more")
MaxAge == 300

\* the longest text, in tokens
MaxTokens == 2

\* the longest thread, in messages
MaxMessages == 3
\* expirationTtl of dedupeSeen's put
TTL == 300
\* the documented lifetime of a dedupe key, in seconds
Window == 300

\* an absent (undefined, null, empty) value
NoVal == "none"

\* a value that stands for a thrown exception / rejected promise
Throw == "throw"

----------------------------------------------------------------------------
(* Text: a message text is a sequence of tokens, a word or a bracketed      *)
(* Slack token <sigil body> or <sigil body|label>: <@U1> is a user         *)
(* mention, <#C1|general> a channel mention, <https://x|fix> a link with   *)
(* a label.  Tokens are separated by white space.                          *)

Word(w) == [k |-> "word", sigil |-> NoVal, v |-> w, label |-> NoVal]
Br(sigil, body, label) == [k |-> "br", sigil |-> sigil, v |-> body, label |-> label]
At(u) == Br("@", u, NoVal)

\* the fixed instruction of enforceImageOnly
JaImageOnly == Word("ja:image-only")

\* text.includes(`<@${botUserId}>`)
Mentions(text, id) == \E i \in 1..Len(text) : text[i] = At(id)

\* s.replace(/<[^>|]+\|([^>]+)>/g, '$1'): every bracketed token with a label
\* becomes its label
RECURSIVE ReplaceLabelled(_)
ReplaceLabelled(s) ==
  IF s = <<>> THEN <<>>
  ELSE <<(IF Head(s).k = "br" /\ Head(s).label # NoVal
          THEN Word(Head(s).label) ELSE Head(s))>> \o ReplaceLabelled(Tail(s))

IsWord(tok) == tok.k = "word"

\* the three removals of bracketed tokens drop every token still bracketed;
\* the white space between the words left is collapsed and trimmed
sanitizeSlackText(text, botUserId) == SelectSeq(ReplaceLabelled(text), IsWord)

SaysImageOnly(t) == \E i \in 1..Len(t) : t[i] \in {JaImageOnly, Word("image only")}

\* variant: the text is taken as it is
enforceNothing(t) == t

enforceImageOnly(t) ==
  IF SaysImageOnly(t) THEN t
  ELSE IF Len(t) > 0 THEN Append(t, JaImageOnly) ELSE <<JaImageOnly>>

----------------------------------------------------------------------------
(* Files and images *)

ImageMimes == {"image/png", "image/jpeg"}

File(url, mime) == [url |-> url, mimetype |-> mime]

\* f.mimetype.startsWith('image/') and a url is present
IsImageFile(f) == f.mimetype \in ImageMimes /\ f.url # NoVal

\* the images of the current message, in order
CollectCurrent(files) == SelectSeq(files, IsImageFile)

RECURSIVE DedupeFrom(_, _)
DedupeFrom(s, seen) ==
  IF s = <<>> THEN <<>>
  ELSE IF Head(s).url \in seen THEN DedupeFrom(Tail(s), seen)
  ELSE <<Head(s)>> \o DedupeFrom(Tail(s), seen \cup {Head(s).url})

\* variant: nothing is dropped
DedupeNothing(s) == s

\* filter with a Set of the urls seen: first occurrence wins
DedupeByUrl(s) == DedupeFrom(s, {})

----------------------------------------------------------------------------
(* Identities *)

BotUser == "UBOT"
Human == "UHUMAN"

----------------------------------------------------------------------------
(* Slack Web API answers.  slackApi throws when fetch fails or the HTTP    *)
(* status is not ok; otherwise it returns the JSON, whose ok may be false. *)
(* messages is the `messages` array (empty also when it is missing).       *)

ApiThrow == [threw |-> TRUE, ok |-> FALSE, messages |-> <<>>]
ApiOk(msgs) == [threw |-> FALSE, ok |-> TRUE, messages |-> msgs]
ApiNotOk == [threw |-> FALSE, ok |-> FALSE, messages |-> <<>>]

Msg(ts, user, botId, text, files) ==
  [ts |-> ts, user |-> user, bot_id |-> botId, text |-> text, files |-> files]

----------------------------------------------------------------------------
(* Classification *)

\* payload.authorizations[0].user_id || payload.authed_users[0]
extractBotUserId(p) ==
  IF p.authorizations # NoVal THEN p.authorizations ELSE p.authed_users

\* the text of the message fetchThreadRoot returns: messages[0], or null
\* when the array is missing or empty
RootText(resp) ==
  IF Len(resp.messages) > 0 THEN resp.messages[1].text ELSE <<>>

\* shouldProcess awaits fetchThreadRoot exactly on this path
NeedsThreadRoot(e, botUserId) ==
  /\ e.channel_type # "im"
  /\ e.type # "app_mention"
  /\ botUserId # NoVal
  /\ ~(e.user # NoVal /\ e.user = botUserId)
  /\ e.bot_id = NoVal
  /\ ~Mentions(e.text, botUserId)
  /\ e.thread_ts # NoVal
  /\ e.channel # NoVal

\* variant: a shouldProcess that looks at the author before anything else
shouldProcessAuthorFirst(e, botUserId, resp) ==
  IF botUserId # NoVal /\ e.user # NoVal /\ e.user = botUserId THEN "skip"
  ELSE IF e.bot_id # NoVal THEN "skip"
  ELSE IF e.channel_type = "im" THEN "process"
  ELSE IF e.type = "app_mention" THEN "process"
  ELSE IF botUserId = NoVal THEN "skip"
  ELSE IF Mentions(e.text, botUserId) THEN "process"
  ELSE IF e.thread_ts # NoVal /\ e.channel # NoVal
       THEN IF resp.threw THEN Throw
            ELSE IF Mentions(RootText(resp), botUserId) THEN "process"
            ELSE "skip"
  ELSE "skip"

\* "process", "skip", or Throw when conversations.replies fails.  resp is
\* the answer to conversations.replies, read only where the code asks for it.
shouldProcess(e, botUserId, resp) ==
  IF e.channel_type = "im" THEN "process"
  ELSE IF e.type = "app_mention" THEN "process"
  ELSE IF botUserId = NoVal THEN "skip"
  ELSE IF e.user # NoVal /\ e.user = botUserId THEN "skip"
  ELSE IF e.bot_id # NoVal THEN "skip"
  ELSE IF Mentions(e.text, botUserId) THEN "process"
  ELSE IF e.thread_ts # NoVal /\ e.channel # NoVal
       THEN IF resp.threw THEN Throw
            ELSE IF Mentions(RootText(resp), botUserId) THEN "process"
            ELSE "skip"
  ELSE "skip"

\* event.thread_ts || event.ts
RootTs(e) == IF e.thread_ts # NoVal THEN e.thread_ts ELSE e.ts

\* the block `if (channel && root_ts)` is entered
HasChannelAndRoot(e) == e.channel # NoVal /\ RootTs(e) # NoVal

EidKey(p) == "eid:" \o p.event_id

\* variant: a cts key made of the channel alone
CtsKeyChannelOnly(e) == "cts:" \o e.channel \o ":T1"
CtsKey(e) == "cts:" \o e.channel \o ":" \o e.ts

\* keyTs is defined
HasCtsKey(e) == e.channel # NoVal /\ e.ts # NoVal

\* variant: a processSlackEvent without the guard on app_mention events that
\* carry files
AfterDecisionUnguarded(e, process) ==
  IF ~process THEN "not_processed"
  ELSE IF e.type \notin {"message", "app_mention"} THEN "other_type"
  ELSE IF e.type = "message" /\ e.subtype # NoVal /\ e.subtype # "file_share"
       THEN "ignored_subtype"
  ELSE IF HasCtsKey(e) THEN "cts"
  ELSE IF HasChannelAndRoot(e) THEN "act"
  ELSE "no_channel"

\* variant: a processSlackEvent that applies the cts dedupe to every event
\* that has a channel and a ts, whatever shouldProcess answered
AfterDecisionEager(e, process) ==
  IF HasCtsKey(e) THEN "cts"
  ELSE IF ~process THEN "not_processed"
  ELSE IF HasChannelAndRoot(e) THEN "act"
  ELSE "no_channel"

\* variant: a processSlackEvent that handles a message whatever its subtype
AfterDecisionAnySubtype(e, process) ==
  IF ~process THEN "not_processed"
  ELSE IF e.type \notin {"message", "app_mention"} THEN "other_type"
  ELSE IF e.type = "app_mention" /\ Len(e.files) > 0 THEN "mention_with_files"
  ELSE IF HasCtsKey(e) THEN "cts"
  ELSE IF HasChannelAndRoot(e) THEN "act"
  ELSE "no_channel"

\* Where processSlackEvent goes once shouldProcess has answered `process`:
\* the name of the return it takes, or "cts" (dedupe on keyTs), or "act"
\* (no keyTs, and the block `if (channel && root_ts)` is entered).
AfterDecision(e, process) ==
  IF ~process THEN "not_processed"
  ELSE IF e.type \notin {"message", "app_mention"} THEN "other_type"
  ELSE IF e.type = "app_mention" /\ Len(e.files) > 0 THEN "mention_with_files"
  ELSE IF e.type = "message" /\ e.subtype # NoVal /\ e.subtype # "file_share"
       THEN "ignored_subtype"
  ELSE IF HasCtsKey(e) THEN "cts"
  ELSE IF HasChannelAndRoot(e) THEN "act"
  ELSE "no_channel"

\* variant: a dedupeSeen that does not look at what get returned
AfterGetBlind(failed, hit) ==
  IF failed THEN "pass" ELSE "put"

\* dedupeSeen after its get: the catch returns false ("pass"), a hit returns
\* true ("dup"), a miss goes on to put
AfterGet(failed, hit) ==
  IF failed THEN "pass" ELSE IF hit THEN "dup" ELSE "put"

\* variant: a dedupeSeen that drops the event when put throws
AfterPutClosed(failed) == IF failed THEN "dup" ELSE "pass"

\* dedupeSeen after its put: false whether put resolved or threw
AfterPut(failed) == "pass"

----------------------------------------------------------------------------
(* listPreviousBotImage *)

\* the last file of `files` that is an image with a url, as a sequence of
\* zero or one image
RECURSIVE LastImage(_)
LastImage(files) ==
  IF files = <<>> THEN <<>>
  ELSE IF IsImageFile(files[Len(files)]) THEN <<files[Len(files)]>>
  ELSE LastImage(SubSeq(files, 1, Len(files) - 1))

IsBotMessage(m, botUserId) ==
  IF botUserId # NoVal THEN m.user = botUserId ELSE m.bot_id # NoVal

\* scans msgs from the last to the first
RECURSIVE ScanMessages(_, _, _)
ScanMessages(msgs, ts, botUserId) ==
  IF msgs = <<>> THEN <<>>
  ELSE LET m == msgs[Len(msgs)]
           rest == SubSeq(msgs, 1, Len(msgs) - 1)
       IN  IF m.ts = ts THEN ScanMessages(rest, ts, botUserId)
           ELSE IF ~IsBotMessage(m, botUserId) THEN ScanMessages(rest, ts, botUserId)
           ELSE IF LastImage(m.files) # <<>> THEN LastImage(m.files)
           ELSE ScanMessages(rest, ts, botUserId)

\* variant: the thread is scanned from its first message on
RECURSIVE ScanFromFirst(_, _, _)
ScanFromFirst(msgs, ts, botUserId) ==
  IF msgs = <<>> THEN <<>>
  ELSE LET m == Head(msgs)
       IN  IF m.ts = ts THEN ScanFromFirst(Tail(msgs), ts, botUserId)
           ELSE IF ~IsBotMessage(m, botUserId) THEN ScanFromFirst(Tail(msgs), ts, botUserId)
           ELSE IF LastImage(m.files) # <<>> THEN LastImage(m.files)
           ELSE ScanFromFirst(Tail(msgs), ts, botUserId)

listFirstBotImage(resp, ts, botUserId) == ScanFromFirst(resp.messages, ts, botUserId)

\* zero or one image; resp is the answer to conversations.replies
listPreviousBotImage(resp, ts, botUserId) ==
  ScanMessages(resp.messages, ts, botUserId)

----------------------------------------------------------------------------
(* The work of a task once it has passed both dedupe checks: the block     *)
(* `if (channel && root_ts)` of processSlackEvent with processBatchImages. *)
(* Every external call answers nondeterministically; what is kept of the   *)
(* run is its outcome:                                                     *)
(*   published         files.completeUploadExternal answered ok            *)
(*   complete_not_ok   it answered ok=false, which the code does not check *)
(*   guided / guide_unposted     the "No image found" message, sent or not *)
(*   error_posted / error_unposted   the "Failed to generate" message      *)
(*   threw_lookup      listPreviousBotImage threw: the task's promise      *)
(*                     rejects                                             *)

ApiAnswers == IF world.faults THEN {ApiThrow, ApiNotOk, ApiOk(<<>>)} ELSE {ApiOk(<<>>)}

\* a plain fetch (image download, byte upload): throws, or res.ok or not
FetchAnswers == IF world.faults THEN {"throw", "not_ok", "ok"} ELSE {"ok"}

\* thread histories conversations.replies may return
ThreadRoot(text) == Msg("T0", Human, NoVal, text, <<>>)
BotImage(ts, url) == Msg(ts, BotUser, "B1", <<>>, <<File(url, "image/png")>>)
Threads ==
  { <<>>,
    <<ThreadRoot(<<Word("hello")>>)>>,
    <<ThreadRoot(<<At(BotUser), Word("draw")>>)>>,
    <<ThreadRoot(<<At(BotUser), Word("draw")>>), BotImage("T8", "p")>>,
    <<ThreadRoot(<<Word("hello")>>), BotImage("T8", "a"),
      Msg("T9", Human, NoVal, <<Word("nice")>>, <<File("h", "image/png")>>)>> }

RepliesAnswers ==
  (IF world.faults THEN {ApiThrow, ApiNotOk} ELSE {}) \cup {ApiOk(th) : th \in Threads}

\* step 1 of processBatchImages: what the download loop can leave in `inputs`
RECURSIVE Downloads(_)
Downloads(items) ==
  IF items = <<>> THEN {[threw |-> FALSE, inputs |-> <<>>, got |-> <<>>]}
  ELSE LET rest == Downloads(Tail(items))
       IN  UNION { IF a = "throw" THEN {[threw |-> TRUE, inputs |-> <<>>, got |-> <<a>>]}
                   ELSE IF a = "not_ok" THEN {[r EXCEPT !.got = <<a>> \o @] : r \in rest}
                   ELSE {[threw |-> r.threw,
                          inputs |-> IF r.threw THEN <<>> ELSE <<Head(items)>> \o r.inputs,
                          got |-> <<a>> \o r.got]
                         : r \in rest}
                   : a \in FetchAnswers }

\* variant: the single-image call however many images were downloaded
GeminiModeSingle(hasKey, prompt, inputs) ==
  IF hasKey /\ Len(prompt) > 0 THEN "single" ELSE "echo"

\* which generative call step 2 makes
GeminiMode(hasKey, prompt, inputs) ==
  IF hasKey /\ Len(prompt) > 0 /\ Len(inputs) > 1 THEN "combined"
  ELSE IF hasKey /\ Len(prompt) > 0 THEN "single"
  ELSE "echo"

\* what one generateContent request can give
GeminiAnswers == IF world.faults THEN {"image", "no_image", "throw"} ELSE {"image"}

\* generationConfig.responseModalities of the first request and of the
\* fallback request
ImageOnly == <<"IMAGE">>
TextAndImage == <<"TEXT", "IMAGE">>

\* the body of one generateContent request: the text part, then one
\* inline_data part for each image, in order
GenerateContent(prompt, images, modalities) ==
  [prompt |-> prompt, images |-> images, modalities |-> modalities]

\* const gid = opts?.traceId || `gmi-...`: the correlation id written to the
\* log with every request and answer of one call
Gid == "gmi-1"

\* a call as the properties see it: the requests sent, in order, what each
\* was answered, the message of the Error thrown ("" when the call
\* returned the image) and the correlation id it logged
Generated(sent, got, error) ==
  [threw |-> error # "", error |-> error, sent |-> sent, got |-> got,
   gid |-> IF sent = <<>> THEN NoVal ELSE Gid]

\* no call to the generative API
NoGeneration == Generated(<<>>, <<>>, "")

\* the message of the rejection of fetch or of res.json()
FetchFailed == "fetch failed"

\* variant: gives up when the first request brings no image
transformImageNoRetry(image, prompt, first, second) ==
  LET r1 == GenerateContent(prompt, <<image>>, ImageOnly)
  IN  IF first = "throw" THEN Generated(<<r1>>, <<first>>, FetchFailed)
      ELSE IF first = "image" THEN Generated(<<r1>>, <<first>>, "")
      ELSE Generated(<<r1>>, <<first>>, "Gemini did not return an image (fallback)")

\* transformImage: the request for an image, and the fallback request when
\* its answer holds no image
transformImage(image, prompt, first, second) ==
  LET r1 == GenerateContent(prompt, <<image>>, ImageOnly)
      r2 == GenerateContent(prompt, <<image>>, TextAndImage)
  IN  IF first = "throw" THEN Generated(<<r1>>, <<first>>, FetchFailed)
      ELSE IF first = "image" THEN Generated(<<r1>>, <<first>>, "")
      ELSE IF second = "throw" THEN Generated(<<r1, r2>>, <<first, second>>, FetchFailed)
      ELSE IF second = "image" THEN Generated(<<r1, r2>>, <<first, second>>, "")
      ELSE Generated(<<r1, r2>>, <<first, second>>,
                     "Gemini did not return an image (fallback)")

\* transformImagesCombined: the same two requests with every image as a part
transformImagesCombined(images, prompt, first, second) ==
  LET r1 == GenerateContent(prompt, images, ImageOnly)
      r2 == GenerateContent(prompt, images, TextAndImage)
  IN  IF first = "throw" THEN Generated(<<r1>>, <<first>>, FetchFailed)
      ELSE IF first = "image" THEN Generated(<<r1>>, <<first>>, "")
      ELSE IF second = "throw" THEN Generated(<<r1, r2>>, <<first, second>>, FetchFailed)
      ELSE IF second = "image" THEN Generated(<<r1, r2>>, <<first, second>>, "")
      ELSE Generated(<<r1, r2>>, <<first, second>>,
                     "Gemini combined request returned no image (fallback)")

\* step 2 of processBatchImages; without a call the first input is the output
GeminiResults(mode, inputs, prompt) ==
  IF mode = "combined"
  THEN {transformImagesCombined(inputs, prompt, a, b) : a \in GeminiAnswers, b \in GeminiAnswers}
  ELSE IF mode = "single"
  THEN {transformImage(inputs[1], prompt, a, b) : a \in GeminiAnswers, b \in GeminiAnswers}
  ELSE {NoGeneration}

\* the message of the Error slackApi throws (fetch rejected, or an HTTP
\* status that is not ok)
SlackApiFailed == "slackApi http error"

\* what a Slack Web API call gave: "throw", "ok" or "not_ok"
ApiStatus(a) == IF a.threw THEN "throw" ELSE IF a.ok THEN "ok" ELSE "not_ok"

\* variant: every step is made whatever the one before gave
UploadStepsAll(meta, up, done) ==
  <<"files.getUploadURLExternal", "upload", "files.completeUploadExternal">>

\* the calls step 3 of processBatchImages makes, in order
UploadSteps(meta, up, done) ==
  <<"files.getUploadURLExternal">>
    \o (IF meta.threw \/ ~meta.ok THEN <<>>
        ELSE <<"upload">>
               \o (IF up # "ok" THEN <<>> ELSE <<"files.completeUploadExternal">>))

\* the message of the Error step 3 throws, "" when it returns
UploadError(meta, up, done) ==
  IF meta.threw THEN SlackApiFailed
  ELSE IF ~meta.ok THEN "getUploadURLExternal failed"
  ELSE IF up = "throw" THEN "fetch failed"
  ELSE IF up = "not_ok" THEN "upload failed"
  ELSE IF done.threw THEN SlackApiFailed
  ELSE ""

\* variant: an upload that throws after files.completeUploadExternal
\* answered ok
UploadOutcomeLateThrow(meta, up, done) == "threw"

\* step 3 of processBatchImages
UploadOutcome(meta, up, done) ==
  IF meta.threw \/ ~meta.ok THEN "threw"
  ELSE IF up # "ok" THEN "threw"
  ELSE IF done.threw THEN "threw"
  ELSE IF done.ok THEN "published"
  ELSE "complete_not_ok"

UploadOutcomes ==
  {UploadOutcome(meta, up, done) : meta \in ApiAnswers, up \in FetchAnswers, done \in ApiAnswers}

\* step 3 as the properties see it: the calls made, what each gave, the
\* files named in the payload of files.completeUploadExternal, how the step
\* ended and the message of the Error thrown
UploadRun(meta, up, done) ==
  LET steps == UploadSteps(meta, up, done)
      all == <<ApiStatus(meta), up, ApiStatus(done)>>
  IN  [steps |-> steps,
       got |-> SubSeq(all, 1, Len(steps)),
       files |-> IF Len(steps) = 3 THEN <<"outName">> ELSE <<>>,
       outcome |-> UploadOutcome(meta, up, done),
       error |-> UploadError(meta, up, done)]

UploadRuns ==
  {UploadRun(meta, up, done) : meta \in ApiAnswers, up \in FetchAnswers, done \in ApiAnswers}

\* steps 1 and 2 of processBatchImages(items): what was downloaded, the
\* call chosen ("none" when the downloads stopped it before) and how it went
BatchRun(items, got, inputs, mode, gen, error) ==
  [items |-> items, got |-> got, inputs |-> inputs, mode |-> mode, gen |-> gen,
   threw |-> error # "", error |-> error]

\* variant: a processBatchImages that goes on without any input
BatchRunsNoInputCheck(items, hasKey, prompt) ==
  UNION { IF d.threw
          THEN {BatchRun(items, d.got, d.inputs, "none", NoGeneration, FetchFailed)}
          ELSE {BatchRun(items, d.got, d.inputs, "combined", g, g.error)
                : g \in {transformImagesCombined(d.inputs, prompt, a, b)
                           : a \in GeminiAnswers, b \in GeminiAnswers}}
          : d \in Downloads(items) }

BatchRuns(items, hasKey, prompt) ==
  UNION { IF d.threw \/ d.inputs = <<>>
          THEN {BatchRun(items, d.got, d.inputs, "none", NoGeneration,
                         IF d.threw THEN FetchFailed ELSE "no inputs downloaded")}
          ELSE {BatchRun(items, d.got, d.inputs, GeminiMode(hasKey, prompt, d.inputs), g, g.error)
                : g \in GeminiResults(GeminiMode(hasKey, prompt, d.inputs), d.inputs, prompt)}
          : d \in Downloads(items) }

\* processBatchImages(items): "threw", or how the upload ended
BatchOutcomes(items, hasKey, prompt) ==
  UNION { IF b.threw THEN {"threw"} ELSE UploadOutcomes : b \in BatchRuns(items, hasKey, prompt) }

\* the caller's try/catch around processBatchImages: a failure becomes the
\* chat.postMessage of the error, whose own failure is swallowed
Caught(b) ==
  IF b = "threw"
  THEN {IF a.threw \/ ~a.ok THEN "error_unposted" ELSE "error_posted" : a \in ApiAnswers}
  ELSE {b}

\* the values a template literal puts into the message of an Error
Interpolated(error) ==
  IF error \in {"Gemini did not return an image (fallback)",
                "Gemini combined request returned no image (fallback)"}
  THEN {"res2.status"}
  ELSE IF error = "upload failed" THEN {"up.status"}
  ELSE IF error = SlackApiFailed THEN {"method", "resp.status"}
  ELSE {}

\* a chat.postMessage or a shared file that the thread shows: the guidance,
\* the error `Failed to generate images: ${reason}` with what its reason
\* holds, or the output image
Posted(kind, reason) == [kind |-> kind, reason |-> reason, values |-> Interpolated(reason)]

Guidance == {IF a.threw \/ ~a.ok THEN "guide_unposted" ELSE "guided" : a \in ApiAnswers}

\* the prompt handed to the generative call
PromptOf(e, botUserId) == enforceImageOnly(sanitizeSlackText(e.text, botUserId))

\* const hasPrompt = (prompt || '').trim().length > 0
HasPrompt(e, botUserId) == Len(PromptOf(e, botUserId)) > 0

\* the images of the event, the lookup (made when lookedUp) and the list put
\* together for processBatchImages
Collected(e, botUserId, lookedUp, resp) ==
  LET targets == DedupeByUrl(CollectCurrent(e.files))
      prev == IF lookedUp /\ ~resp.threw
              THEN listPreviousBotImage(resp, RootTs(e), botUserId) ELSE <<>>
  IN  [lookedUp |-> lookedUp,
       threw |-> lookedUp /\ resp.threw,
       prev |-> prev,
       targets |-> targets,
       items |-> IF prev # <<>> THEN DedupeByUrl(prev \o targets) ELSE targets]

\* variant: no guidance, processBatchImages whatever was collected
NextStepNoGuide(c) == IF c.threw THEN "threw_lookup" ELSE "batch"

\* where the block goes with what it collected
NextStep(c) ==
  IF c.threw THEN "threw_lookup"
  ELSE IF c.items = <<>> THEN "guide"
  ELSE "batch"

\* the rest of the block after the lookup answered (or was not made: lookedUp
\* FALSE)
AfterLookup(e, botUserId, hasKey, lookedUp, resp) ==
  LET c == Collected(e, botUserId, lookedUp, resp)
  IN  IF NextStep(c) = "threw_lookup" THEN {"threw_lookup"}
      ELSE IF NextStep(c) = "guide" THEN Guidance
      ELSE UNION {Caught(b) : b \in BatchOutcomes(c.items, hasKey, PromptOf(e, botUserId))}

\* every outcome the block can have for event e
RunOutcomes(e, botUserId, hasKey) ==
  IF HasPrompt(e, botUserId)
  THEN UNION {AfterLookup(e, botUserId, hasKey, TRUE, resp) : resp \in RepliesAnswers}
  ELSE AfterLookup(e, botUserId, hasKey, FALSE, ApiNotOk)

---------------------------------------------------------------------------------------------------------------------------------------------------
(* Event envelopes (the payload of an event_callback, its event flattened   *)
(* into it) *)

Envelope(eid, type, channelType, channel, ts, threadTs, user, botId, text, files, subtype) ==
  [event_id |-> eid, authorizations |-> BotUser, authed_users |-> NoVal, hasEvent |-> TRUE,
   type |-> type, channel_type |-> channelType, channel |-> channel, ts |-> ts,
   thread_ts |-> threadTs, user |-> user, bot_id |-> botId, text |-> text,
   files |-> files, subtype |-> subtype]

ImgA == File("a", "image/png")

\* a channel post with an image that mentions the bot: Slack sends it as a
\* message (file_share) event and as an app_mention event
PostFileMsg ==
  Envelope("E1", "message", "channel", "C1", "T1", NoVal, Human, NoVal,
           <<At(BotUser), Word("cat")>>, <<ImgA>>, "file_share")
PostFileMention ==
  Envelope("E2", "app_mention", "channel", "C1", "T1", NoVal, Human, NoVal,
           <<At(BotUser), Word("cat")>>, <<ImgA>>, NoVal)
\* a text-only reply in a thread that mentions the bot, again as both events
PostTextMsg ==
  Envelope("E3", "message", "channel", "C1", "T2", "T0", Human, NoVal,
           <<At(BotUser), Word("bigger")>>, <<>>, NoVal)
PostTextMention ==
  Envelope("E4", "app_mention", "channel", "C1", "T2", "T0", Human, NoVal,
           <<At(BotUser), Word("bigger")>>, <<>>, NoVal)

Siblings == {PostFileMsg, PostFileMention, PostTextMsg, PostTextMention}

\* two events are the two events Slack sends for one post
SamePost(p, q) ==
  /\ p.channel = q.channel /\ p.ts = q.ts
  /\ p.event_id # q.event_id
  /\ {p.type, q.type} = {"message", "app_mention"}

\* the message event Slack sends for a file the bot has published for event
\* e: written by the bot, in the channel and thread of e
EchoOf(e) ==
  Envelope("E9", "message", e.channel_type, e.channel, "T9", RootTs(e), BotUser, "B1",
           <<>>, <<File("g", "image/png")>>, "file_share")

\* events of every shape the handler reads: each field present or absent,
\* and each kind of value the code tells apart
Texts == {<<>>, <<Word("cat")>>, <<At(BotUser), Word("cat")>>}

Shapes ==
  { [Envelope("E1", type, channelType, "C1", "T2", threadTs, user, botId, text, files, subtype)
       EXCEPT !.authorizations = auth]
    : type \in {"message", "app_mention", "reaction_added"},
      channelType \in {"channel", "im"},
      threadTs \in {NoVal, "T0"},
      user \in {Human, BotUser},
      botId \in {NoVal, "B1"},
      text \in Texts,
      files \in {<<>>, <<ImgA>>},
      subtype \in {NoVal, "file_share", "message_changed"},
      auth \in {NoVal, BotUser} }

\* an event_callback whose payload has no `event`
NoEvent ==
  [Envelope("E1", NoVal, NoVal, NoVal, NoVal, NoVal, NoVal, NoVal, <<>>, <<>>, NoVal)
     EXCEPT !.hasEvent = FALSE]

Oddities ==
  { NoEvent,
    [PostFileMsg EXCEPT !.event_id = NoVal],
    [PostFileMsg EXCEPT !.ts = NoVal],
    [PostFileMsg EXCEPT !.channel = NoVal],
    [PostFileMsg EXCEPT !.ts = NoVal, !.thread_ts = "T0"],
    [PostTextMsg EXCEPT !.authorizations = NoVal, !.authed_users = BotUser],
    [PostFileMsg EXCEPT !.files = <<File("d", "application/pdf")>>],
    [PostFileMsg EXCEPT !.files = <<ImgA, File("b", "image/jpeg"), ImgA>>] }

AllEnvelopes == Siblings \cup Shapes \cup Oddities

Keys ==
  {EidKey(p) : p \in AllEnvelopes} \cup {CtsKey(p) : p \in AllEnvelopes}

----------------------------------------------------------------------------
(* HTTP requests *)

\* the Worker's clock when a request arrives, in seconds
Now == 1000
\* the freshness window of verifySlackSignature, in seconds
Freshness == 300
\* the signing secret Slack holds
Secret == "s3cret"

\* The x-slack-request-timestamp header.  digits: the string begins with an
\* integer, value: that integer, junk: other characters follow it
TsHeader(digits, value, junk) ==
  [present |-> TRUE, digits |-> digits, value |-> value, junk |-> junk]
NoTsHeader == [present |-> FALSE, digits |-> FALSE, value |-> 0, junk |-> FALSE]

\* parseInt(ts, 10): the integer the string begins with, NaN without one
parseInt(h) == [finite |-> h.digits, n |-> IF h.digits THEN h.value ELSE 0]

Abs(x) == IF x < 0 THEN 0 - x ELSE x

\* the request body as the handler reads it: whether it parses as JSON, and
\* of the payload its type, its challenge and the event envelope
Body(json, type, challenge, p) ==
  [json |-> json, type |-> type, challenge |-> challenge, p |-> p]

\* `v0:${ts}:${body}`
Base(tsHeader, body) == [version |-> "v0", ts |-> tsHeader, body |-> body]

\* hmac256: importKey rejects a zero-length key; otherwise the hex digest,
\* which is one value per key and message
hmac256(key, message) ==
  [threw |-> key = "", digest |-> <<key, message>>]

\* The x-slack-signature header: a prefix followed by a hex digest
SigHeader(prefix, key, tsHeader, body) ==
  [present |-> TRUE, prefix |-> prefix, digest |-> <<key, Base(tsHeader, body)>>]
NoSigHeader ==
  [present |-> FALSE, prefix |-> "", digest |-> <<"", Base(NoTsHeader, Body(FALSE, NoVal, NoVal, NoVal))>>]

Request(method, path, tsHeader, sigHeader, body) ==
  [method |-> method, path |-> path, tsHeader |-> tsHeader, sigHeader |-> sigHeader,
   json |-> body.json, type |-> body.type, challenge |-> body.challenge, p |-> body.p]

BodyOf(r) == Body(r.json, r.type, r.challenge, r.p)

\* a request signed as Slack signs it, at the Worker's time
Signed(method, path, body) ==
  LET ts == TsHeader(TRUE, Now, FALSE)
  IN  Request(method, path, ts, SigHeader("v0=", Secret, ts, body), body)

\* a signed event_callback as Slack sends it
SlackRequest(p) ==
  Signed("POST", "/slack/events", Body(TRUE, "event_callback", NoVal, p))

\* timestamp headers: absent, not a number, on and beyond both edges of the
\* freshness window, and a fresh integer followed by other characters
TsHeaders ==
  {NoTsHeader, TsHeader(FALSE, 0, TRUE), TsHeader(TRUE, Now, FALSE), TsHeader(TRUE, Now, TRUE)}
  \cup {TsHeader(TRUE, Now + d, FALSE)
          : d \in {0 - Freshness - 1, 0 - Freshness, Freshness, Freshness + 1}}

\* signature headers for a request: absent, Slack's own, and ones made with
\* another key, another prefix, for another body or for another timestamp
SigHeaders(tsHeader, body) ==
  { NoSigHeader,
    SigHeader("v0=", Secret, tsHeader, body),
    SigHeader("v0=", "guess", tsHeader, body),
    SigHeader("v1=", Secret, tsHeader, body),
    SigHeader("v0=", Secret, tsHeader, [body EXCEPT !.challenge = "other"]),
    SigHeader("v0=", Secret, TsHeader(TRUE, Now - 1, FALSE), body) }

Bodies ==
  {Body(json, type, "xyz", PostFileMsg)
     : json \in BOOLEAN, type \in {"url_verification", "event_callback", "app_rate_limited"}}
  \cup {Body(TRUE, "url_verification", NoVal, PostFileMsg)}

\* requests of every other kind the handler tells apart
OtherRequests ==
  UNION { {Request(method, path, tsHeader, sigHeader, body)
             : method \in {"GET", "POST"},
               path \in {"/healthz", "/slack/events", "/other"},
               sigHeader \in SigHeaders(tsHeader, body)}
          : tsHeader \in TsHeaders, body \in Bodies }

\* variant: a verifier that accepts every request
verifyAnything(r, secret) == "true"

\* "true", "false", or Throw when the HMAC cannot be computed
verifySlackSignature(r, secret) ==
  IF ~r.tsHeader.present \/ ~r.sigHeader.present THEN "false"
  ELSE IF ~parseInt(r.tsHeader).finite THEN "false"
  ELSE IF Abs(Now - parseInt(r.tsHeader).n) > Freshness THEN "false"
  ELSE LET h == hmac256(secret, Base(r.tsHeader, BodyOf(r)))
       IN  IF h.threw THEN Throw
           ELSE IF r.sigHeader.prefix = "v0=" /\ r.sigHeader.digest = h.digest THEN "true"
           ELSE "false"

\* variant: a handleEvents that acknowledges url_verification like any other
\* payload
handleEventsNoChallenge(r, logInfo) ==
  IF ~r.json THEN "ok"
  ELSE IF r.type # "event_callback" THEN "ok"
  ELSE IF ~r.p.hasEvent /\ logInfo THEN "ok"
  ELSE "spawn"

\* variant: a handleEvents that starts no task for a payload without `event`
handleEventsStrict(r, logInfo) ==
  IF ~r.json THEN "ok"
  ELSE IF r.type = "url_verification" THEN "challenge"
  ELSE IF r.type # "event_callback" THEN "ok"
  ELSE IF ~r.p.hasEvent THEN "ok"
  ELSE "spawn"

\* variant: a handleEvents that starts a task for every payload that is not
\* a url_verification
handleEventsAnyPayload(r, logInfo) ==
  IF r.json /\ r.type = "url_verification" THEN "challenge" ELSE "spawn"

\* handleEvents: "challenge", "ok" (no task), or "spawn"
handleEvents(r, logInfo) ==
  IF ~r.json THEN "ok"
  ELSE IF r.type = "url_verification" THEN "challenge"
  ELSE IF r.type # "event_callback" THEN "ok"
  ELSE IF ~r.p.hasEvent /\ logInfo THEN "ok"
  ELSE "spawn"

\* JSON.stringify({ challenge }): an undefined member is left out
ChallengeJson(challenge) ==
  IF challenge = NoVal THEN "{}" ELSE "{\"challenge\":\"" \o challenge \o "\"}"

\* variant: a fetch that routes before it verifies the signature
RespondRouteFirst(r, logInfo, secret) ==
  IF r.path = "/healthz"
  THEN [status |-> 200, body |-> "health", valid |-> NoVal, did |-> "none"]
  ELSE IF r.method # "POST"
  THEN [status |-> 400, body |-> "POST only", valid |-> NoVal, did |-> "none"]
  ELSE IF r.path # "/slack/events"
  THEN [status |-> 400, body |-> "unknown endpoint", valid |-> NoVal, did |-> "none"]
  ELSE LET valid == verifySlackSignature(r, secret) IN
       IF valid = Throw
       THEN [status |-> 500, body |-> "internal error", valid |-> valid, did |-> "none"]
       ELSE IF valid = "false"
       THEN [status |-> 401, body |-> "invalid signature", valid |-> valid, did |-> "none"]
       ELSE LET h == handleEvents(r, logInfo)
            IN  [status |-> 200,
                 body |-> IF h = "challenge" THEN ChallengeJson(r.challenge) ELSE "ok",
                 valid |-> valid, did |-> h]

\* fetch: the status and body, what verifySlackSignature returned if it was
\* called (valid), and what handleEvents did
Respond(r, logInfo, secret) ==
  IF r.path = "/healthz"
  THEN [status |-> 200, body |-> "health", valid |-> NoVal, did |-> "none"]
  ELSE IF r.method # "POST"
  THEN [status |-> 400, body |-> "POST only", valid |-> NoVal, did |-> "none"]
  ELSE LET valid == verifySlackSignature(r, secret) IN
       IF valid = Throw
       THEN [status |-> 500, body |-> "internal error", valid |-> valid, did |-> "none"]
       ELSE IF valid = "false"
       THEN [status |-> 401, body |-> "invalid signature", valid |-> valid, did |-> "none"]
       ELSE IF r.path = "/slack/events"
       THEN LET h == handleEvents(r, logInfo)
            IN  [status |-> 200,
                 body |-> IF h = "challenge" THEN ChallengeJson(r.challenge) ELSE "ok",
                 valid |-> valid, did |-> h]
       ELSE [status |-> 400, body |-> "unknown endpoint", valid |-> valid, did |-> "none"]

----------------------------------------------------------------------------
(* State *)
(*   env    the Worker's bindings: SLACK_BOT_TOKEN set, LOG_LEVEL lets     *)
(*          'info' through, GEMINI_API_KEY set, SLACK_SIGNING_SECRET (the  *)
(*          empty string when it is not set)                               *)
(*   world  what is outside the Worker: which requests arrive (scene), how *)
(*          many (cap), and whether calls to Slack, to the file hosts and  *)
(*          to the generative API can fail (faults)                        *)
(*   tasks  the background tasks handed to ctx.waitUntil, in the order of  *)
(*          their requests                                                 *)
(*   store  the KV namespace: for each key the seconds it still lives      *)
(*          (0: the key is absent)                                         *)
(*   hist   history of each key, kept for the properties: the seconds      *)
(*          since its last successful put, and since dedupeSeen last       *)
(*          returned false for it (-1: never)                              *)
(*   http   the last request and its response, and the number of         *)
(*          requests so far                                                *)
(*   call   one run of the block of processSlackEvent that collects the    *)
(*          images, followed step by step: the event, what was collected,  *)
(*          and what processBatchImages downloaded and asked of the        *)
(*          generative API                                                 *)

Envs == [token : BOOLEAN, logInfo : BOOLEAN, key : BOOLEAN, secret : {Secret, ""}]

NoHist == [putAge |-> -1, passAge |-> -1]

NoRequest ==
  Request("GET", "/healthz", NoTsHeader, NoSigHeader, Body(FALSE, NoVal, NoVal, PostFileMsg))

\* an image sent to the bot in a direct message
DmFileMsg ==
  Envelope("E7", "message", "im", "D1", "T1", NoVal, Human, NoVal,
           <<Word("cat")>>, <<ImgA>>, "file_share")

AllKeys ==
  Keys \cup {EidKey(p) : p \in {DmFileMsg, EchoOf(DmFileMsg)}}
       \cup {CtsKey(p) : p \in {DmFileMsg, EchoOf(DmFileMsg)}}

NoCollected ==
  [lookedUp |-> FALSE, threw |-> FALSE, prev |-> <<>>, targets |-> <<>>, items |-> <<>>]

NoBatch == BatchRun(<<>>, <<>>, <<>>, "none", NoGeneration, "")

NoUpload == [steps |-> <<>>, got |-> <<>>, files |-> <<>>, outcome |-> NoVal, error |-> ""]

\* a text, the bot identity, and what sanitizeSlackText and enforceImageOnly
\* made of it
NoText == [raw |-> <<>>, botUserId |-> NoVal, sanitized |-> <<>>, prompt |-> <<>>]

\* a thread, the ts and bot identity listPreviousBotImage was given, and the
\* image it returned (none: null)
NoLookup == [messages |-> <<>>, ts |-> NoVal, botUserId |-> NoVal, found |-> <<>>]

NoCall ==
  [pc |-> "idle", e |-> PostTextMsg, collected |-> NoCollected, batch |-> NoBatch,
   upload |-> NoUpload, posts |-> <<>>, text |-> NoText, lookup |-> NoLookup]

Start(envs, scenes, cap, faults) ==
  /\ env \in envs
  /\ world \in {[scene |-> s, cap |-> cap, faults |-> faults] : s \in scenes}
  /\ tasks = <<>>
  /\ store = [k \in AllKeys |-> 0]
  /\ hist = [k \in AllKeys |-> NoHist]
  /\ http = [req |-> NoRequest, status |-> 0, body |-> NoVal, valid |-> NoVal,
             task |-> 0, n |-> 0]
  /\ call = NoCall

\* processSlackEvent up to its first await.  Kept for the properties: alone
\* (every earlier task had finished when this one started), the KV operation
\* each dedupe phase ended with (eidOp, ctsOp), what shouldProcess answered
\* (decision) and what its thread-root fetch gave (root)
NewTask(p, hasToken, status, alone) ==
  [p |-> p,
   alone |-> alone,
   pc |-> IF ~hasToken THEN "done" ELSE IF p.event_id # NoVal THEN "eidGet" ELSE "classify",
   outcome |-> IF ~hasToken THEN "no_token" ELSE NoVal,
   decision |-> NoVal,
   root |-> NoVal,
   eidOp |-> NoVal,
   ctsOp |-> NoVal,
   status |-> status]

\* fetch(request): the response, and the task ctx.waitUntil is given
Fetch(r) ==
  LET resp == Respond(r, env.logInfo, env.secret)
      spawn == resp.did = "spawn"
      alone == \A i \in 1..Len(tasks) : tasks[i].pc = "done"
  IN  /\ tasks' = IF spawn THEN Append(tasks, NewTask(r.p, env.token, resp.status, alone)) ELSE tasks
      /\ http' = [req |-> r, status |-> resp.status, body |-> resp.body, valid |-> resp.valid,
                  task |-> IF spawn THEN Len(tasks) + 1 ELSE 0, n |-> http.n + 1]
      /\ UNCHANGED <<call, env, world, store, hist>>

KeyOf(t, phase) == IF phase = "eid" THEN EidKey(t.p) ELSE CtsKey(t.p)

SetOp(t, phase, op) ==
  IF phase = "eid" THEN [t EXCEPT !.eidOp = op] ELSE [t EXCEPT !.ctsOp = op]

Finish(t, outcome) == [t EXCEPT !.pc = "done", !.outcome = outcome]

\* dedupeSeen returned false
Proceed(t, phase) ==
  IF phase = "eid" THEN [t EXCEPT !.pc = "classify"]
  ELSE IF HasChannelAndRoot(t.p) THEN [t EXCEPT !.pc = "run"]
  ELSE Finish(t, "no_channel")

\* await env.nano_banana_dedup.get(key), and what dedupeSeen does with it
Get(i, phase) ==
  /\ i \in 1..Len(tasks)
  /\ tasks[i].pc = phase \o "Get"
  /\ \E failed \in BOOLEAN :
       LET t == tasks[i]
           k == KeyOf(t, phase)
           hit == store[k] > 0
           r == AfterGet(failed, hit)
           op == IF failed THEN "getfail" ELSE IF hit THEN "hit" ELSE "miss"
           t1 == SetOp(t, phase, op)
       IN  /\ tasks' = [tasks EXCEPT ![i] =
                          IF r = "dup" THEN Finish(t1, "dup_" \o phase)
                          ELSE IF r = "put" THEN [t1 EXCEPT !.pc = phase \o "Put"]
                          ELSE Proceed(t1, phase)]
           /\ hist' = IF r = "pass" THEN [hist EXCEPT ![k].passAge = 0] ELSE hist
           /\ UNCHANGED <<call, env, world, store, http>>

\* await env.nano_banana_dedup.put(key, "1", { expirationTtl: 300 })
Put(i, phase) ==
  /\ i \in 1..Len(tasks)
  /\ tasks[i].pc = phase \o "Put"
  /\ \E failed \in BOOLEAN :
       LET t == tasks[i]
           k == KeyOf(t, phase)
           r == AfterPut(failed)
           t1 == SetOp(t, phase, IF failed THEN "putfail" ELSE "put")
           h1 == IF failed THEN hist[k] ELSE [hist[k] EXCEPT !.putAge = 0]
       IN  /\ store' = IF failed THEN store ELSE [store EXCEPT ![k] = TTL]
           /\ tasks' = [tasks EXCEPT ![i] =
                          IF r = "dup" THEN Finish(t1, "dup_" \o phase) ELSE Proceed(t1, phase)]
           /\ hist' = [hist EXCEPT ![k] = IF r = "pass" THEN [h1 EXCEPT !.passAge = 0] ELSE h1]
           /\ UNCHANGED <<call, env, world, http>>

\* what the thread-root fetch of shouldProcess gave, if it was made
RootSeen(e, botUserId, resp) ==
  IF ~NeedsThreadRoot(e, botUserId) THEN NoVal
  ELSE IF resp.threw THEN "threw"
  ELSE IF Mentions(RootText(resp), botUserId) THEN "mentions"
  ELSE "plain"

\* extractBotUserId, shouldProcess, and the returns that come before keyTs
Classify(i) ==
  /\ i \in 1..Len(tasks)
  /\ tasks[i].pc = "classify"
  /\ LET t == tasks[i]
         bot == extractBotUserId(t.p)
     IN  \E resp \in (IF NeedsThreadRoot(t.p, bot) THEN RepliesAnswers ELSE {ApiNotOk}) :
           LET d == shouldProcess(t.p, bot, resp)
               nxt == AfterDecision(t.p, d = "process")
               t1 == [t EXCEPT !.decision = d, !.root = RootSeen(t.p, bot, resp)]
           IN  tasks' = [tasks EXCEPT ![i] =
                           IF d = Throw THEN Finish(t1, "threw_root")
                           ELSE IF nxt = "cts" THEN [t1 EXCEPT !.pc = "ctsGet"]
                           ELSE IF nxt = "act" THEN Proceed(t1, "cts")
                           ELSE Finish(t1, nxt)]
  /\ UNCHANGED <<call, env, world, store, hist, http>>

\* reactions, image collection, lookup, processBatchImages, messages
Run(i) ==
  /\ i \in 1..Len(tasks)
  /\ tasks[i].pc = "run"
  /\ \E o \in RunOutcomes(tasks[i].p, extractBotUserId(tasks[i].p), env.key) :
       tasks' = [tasks EXCEPT ![i] = Finish(@, o)]
  /\ UNCHANGED <<call, env, world, store, hist, http>>

\* variant: a store whose keys never expire
RemainingForever(s) == s

\* the seconds a key still lives once TickSeconds have passed
Remaining(s) == IF s > TickSeconds THEN s - TickSeconds ELSE 0

Older(a) ==
  IF a < 0 THEN a ELSE IF a + TickSeconds > MaxAge THEN MaxAge ELSE a + TickSeconds

\* TickSeconds pass: keys come closer to their expiry
Tick ==
  /\ http.n < world.cap \/ \E i \in 1..Len(tasks) : tasks[i].pc # "done"
  /\ \E k \in AllKeys : hist[k].passAge \in 0..(MaxAge - 1) \/ hist[k].putAge \in 0..(MaxAge - 1)
  /\ store' = [k \in AllKeys |-> Remaining(store[k])]
  /\ hist' = [k \in AllKeys |->
                [hist[k] EXCEPT !.putAge = Older(@), !.passAge = Older(@)]]
  /\ UNCHANGED <<call, env, world, tasks, http>>

Step(i) ==
  \/ Get(i, "eid")
  \/ Put(i, "eid")
  \/ Classify(i)
  \/ Get(i, "cts")
  \/ Put(i, "cts")
  \/ Run(i)

\* events that reach the block: a reply in a thread and a direct message,
\* with every kind of text and of attachment list the block tells apart
BlockTexts ==
  { <<>>, <<At(BotUser)>>, <<At(BotUser), Word("draw")>>, <<Word("draw"), JaImageOnly>> }

BlockFiles ==
  { <<>>, <<ImgA>>, <<File("d", "application/pdf")>>,
    <<ImgA, File("b", "image/jpeg")>>,
    <<ImgA, ImgA, File("b", "image/jpeg")>> }

BlockEvents ==
  { [p EXCEPT !.text = t, !.files = f] : p \in {PostTextMsg, DmFileMsg}, t \in BlockTexts, f \in BlockFiles }

\* processSlackEvent from the collection of the images to the choice between
\* the guidance message and processBatchImages
Collect ==
  /\ call.pc = "idle"
  /\ \E e \in BlockEvents, resp \in RepliesAnswers :
       LET botUserId == extractBotUserId(e)
           c == Collected(e, botUserId, HasPrompt(e, botUserId), resp)
       IN  IF NextStep(c) = "guide"
           THEN \E g \in Guidance :
                  call' = [NoCall EXCEPT !.pc = g, !.e = e, !.collected = c,
                             !.posts = IF g = "guided" THEN <<Posted("guidance", "")>> ELSE <<>>]
           ELSE call' = [NoCall EXCEPT !.pc = NextStep(c), !.e = e, !.collected = c]
  /\ UNCHANGED <<env, world, tasks, store, hist, http>>

\* processBatchImages on the list collected, up to the upload
Batch ==
  /\ call.pc = "batch"
  /\ \E b \in BatchRuns(call.collected.items, env.key,
                         PromptOf(call.e, extractBotUserId(call.e))) :
       call' = [call EXCEPT !.pc = "batched", !.batch = b]
  /\ UNCHANGED <<env, world, tasks, store, hist, http>>

\* step 3 of processBatchImages: the upload of the output image
Upload ==
  /\ call.pc = "batched"
  /\ ~call.batch.threw
  /\ \E u \in UploadRuns :
       call' = [call EXCEPT !.pc = IF u.outcome = "threw" THEN "failed" ELSE u.outcome,
                            !.upload = u,
                            !.posts = IF u.outcome = "published"
                                      THEN Append(@, Posted("image", "")) ELSE @]
  /\ UNCHANGED <<env, world, tasks, store, hist, http>>

\* the catch around processBatchImages: chat.postMessage of the error
Report ==
  /\ \/ call.pc = "batched" /\ call.batch.threw
     \/ call.pc = "failed"
  /\ \E o \in Caught("threw") :
       call' = [call EXCEPT !.pc = o,
                            !.posts = IF o = "error_posted"
                                      THEN Append(@, Posted("error",
                                             IF call.batch.threw THEN call.batch.error
                                             ELSE call.upload.error))
                                      ELSE @]
  /\ UNCHANGED <<env, world, tasks, store, hist, http>>

\* the tokens of a message text: words (one of them the instruction, one an
\* English "image only"), the bot's mention, mentions of a user and of a
\* channel with and without a label, links with and without a label, a
\* special mention
Tokens ==
  { Word("please"), Word("image only"), JaImageOnly,
    At("U123"), Br("@", "U9", "bob"),
    Br("#", "C1", NoVal), Br("#", "C1", "general"),
    Br(NoVal, "https://x", NoVal), Br(NoVal, "https://x", "fix"),
    Br("!", "here", NoVal) }

\* every text of up to MaxTokens tokens, and the text
\* "<@U123> please <https://x|fix> this"
RawTexts ==
  UNION {[1..n -> Tokens] : n \in 0..MaxTokens}
    \cup {<<At("U123"), Word("please"), Br(NoVal, "https://x", "fix"), Word("this")>>}

\* processSlackEvent line 160: the prompt made of event.text
Sanitize ==
  /\ call.pc = "idle"
  /\ \E raw \in RawTexts, botUserId \in {NoVal, "U123"} :
       call' = [NoCall EXCEPT
                  !.pc = "prompted",
                  !.text = [raw |-> raw, botUserId |-> botUserId,
                            sanitized |-> sanitizeSlackText(raw, botUserId),
                            prompt |-> enforceImageOnly(sanitizeSlackText(raw, botUserId))]]
  /\ UNCHANGED <<env, world, tasks, store, hist, http>>

\* events of different posts (another ts in the same channel, the same ts in
\* another channel) and the two events of one post
Apart == {PostFileMsg, PostTextMsg, PostTextMention, DmFileMsg}

\* the requests that arrive in each scene
Requests ==
  IF world.scene = "file_post" THEN {SlackRequest(PostFileMsg), SlackRequest(PostFileMention)}
  ELSE IF world.scene = "text_post"
       THEN {SlackRequest(PostTextMsg), SlackRequest(PostTextMention)}
  ELSE IF world.scene = "race" THEN {SlackRequest(PostFileMsg)}
  ELSE IF world.scene = "apart" THEN {SlackRequest(p) : p \in Apart}
  ELSE IF world.scene = "dm"
       THEN {SlackRequest(DmFileMsg)}
            \cup {SlackRequest(EchoOf(tasks[i].p)) :
                    i \in {j \in 1..Len(tasks) : tasks[j].outcome = "published"}}
  ELSE {SlackRequest(p) : p \in AllEnvelopes} \cup OtherRequests

\* a request arrives, while the scene has more to send
Arrive == http.n < world.cap /\ \E r \in Requests : Fetch(r)

Work == \E i \in 1..MaxTasks : Step(i)

\* the two events of posts that mention the bot, delivered while time passes
Usual == {e \in Envs : e.token /\ e.key /\ e.logInfo /\ e.secret = Secret}

Init == Start(Usual, {"file_post", "text_post"}, 2, FALSE)
Next == Arrive \/ Work \/ Tick
Spec == Init /\ [][Next]_vars

\* one event delivered MaxTasks times at once
InitRace == Start(Usual, {"race"}, MaxTasks, FALSE)
NextRace == Arrive \/ Work
SpecRace == InitRace /\ [][NextRace]_vars

\* a direct message with an image, and the events of what the bot publishes
InitDm == Start(Usual, {"dm"}, MaxTasks, FALSE)
SpecDm == InitDm /\ [][NextRace]_vars

\* two events, of one post or of different posts, in any order and
\* interleaving
InitApart == Start(Usual, {"apart"}, 2, FALSE)
SpecApart == InitApart /\ [][NextRace]_vars

\* one request of any kind, every call able to fail
InitOne ==
  Start({e \in Envs : e.secret = Secret \/ (e.token /\ e.key /\ e.logInfo)}, {"any"}, 1, TRUE)
SpecOne == InitOne /\ [][NextRace]_vars

\* one run of the image block, every call able to fail, with and without
\* GEMINI_API_KEY
InitBlock ==
  Start({e \in Envs : e.token /\ e.logInfo /\ e.secret = Secret}, {"block"}, 0, TRUE)
\* the messages of a thread whose root is T0: the root written by a user or
\* by the bot with an image, replies of the bot with two images, with an
\* image and a document, with text alone, of a user with an image, of
\* another bot with an image
ThreadMessages ==
  { Msg("T0", Human, NoVal, <<Word("hello")>>, <<>>),
    Msg("T0", BotUser, "B1", <<>>, <<File("r", "image/png")>>),
    Msg("T5", BotUser, "B1", <<>>, <<File("x", "image/png"), File("y", "image/jpeg")>>),
    Msg("T6", BotUser, "B1", <<>>, <<File("z", "image/png"), File("d", "application/pdf")>>),
    Msg("T7", BotUser, "B1", <<Word("done")>>, <<>>),
    Msg("T8", Human, NoVal, <<>>, <<File("h", "image/png")>>),
    Msg("T9", "UOTHER", "B2", <<>>, <<File("o", "image/png")>>) }

\* listPreviousBotImage on a thread of up to MaxMessages messages, with the
\* bot identity known or not
Lookup ==
  /\ call.pc = "idle"
  /\ \E msgs \in UNION {[1..n -> ThreadMessages] : n \in 0..MaxMessages},
        botUserId \in {NoVal, BotUser} :
       call' = [NoCall EXCEPT
                  !.pc = "looked_up",
                  !.lookup = [messages |-> msgs, ts |-> "T0", botUserId |-> botUserId,
                              found |-> listPreviousBotImage(ApiOk(msgs), "T0", botUserId)]]
  /\ UNCHANGED <<env, world, tasks, store, hist, http>>

\* the previous bot image of one thread of any make
InitLookup == Start(Usual, {"lookup"}, 0, FALSE)
NextLookup == Lookup
SpecLookup == InitLookup /\ [][NextLookup]_vars

\* the prompt of one text of any make
InitText == Start(Usual, {"text"}, 0, FALSE)
NextText == Sanitize
SpecText == InitText /\ [][NextText]_vars

NextBlock == Collect \/ Batch \/ Upload \/ Report
SpecBlock == InitBlock /\ [][NextBlock]_vars

----------------------------------------------------------------------------
(* Properties *)

\* task i takes the step that ends its get of the given phase
GetDone(i, phase) ==
  /\ tasks[i].pc = phase \o "Get"
  /\ tasks'[i].pc # phase \o "Get"

OpOf(t, phase) == IF phase = "eid" THEN t.eidOp ELSE t.ctsOp

PutDone(i, phase) ==
  /\ tasks[i].pc = phase \o "Put"
  /\ tasks'[i].pc # phase \o "Put"

\* the outcomes in which the task did something a user can see
Visible == {"published", "complete_not_ok", "guided", "error_posted"}

\* C1 (as amended): provided the store's get succeeds, a delivery whose
\* eid:<event-id> check comes less than 300 seconds after a successful put of
\* that key stops at the check, and one that comes when no put of the key
\* succeeded in the last 300 seconds goes on to put the key and is then
\* classified as a new event.
C1_EidWindow ==
  [][\A i \in 1..Len(tasks) :
       /\ (GetDone(i, "eid") /\ tasks'[i].eidOp # "getfail")
            => IF hist[EidKey(tasks[i].p)].putAge \in 0..(Window - 1)
               THEN tasks'[i].pc = "done" /\ tasks'[i].outcome = "dup_eid"
               ELSE tasks'[i].pc = "eidPut"
       /\ PutDone(i, "eid") => tasks'[i].pc = "classify"]_vars

\* C1: a second delivery of a published event stopped at the eid check, 
\* TickSeconds after the first put the key
C1_SecondStopped ==
  /\ Len(tasks) = 2
  /\ tasks[1].p.event_id = tasks[2].p.event_id
  /\ tasks[1].outcome = "published"
  /\ tasks[2].alone
  /\ tasks[2].outcome = "dup_eid"
  /\ hist[EidKey(tasks[1].p)].putAge = TickSeconds

\* C1 as stated: a delivery processed after another delivery of the same
\* event_id has passed the eid check, less than 300 seconds before, stops at
\* the eid check.
C1_AsStated ==
  [][\A i \in 1..Len(tasks) :
       (GetDone(i, "eid") /\ tasks[i].alone
          /\ hist[EidKey(tasks[i].p)].passAge \in 0..(Window - 1))
         => tasks'[i].outcome = "dup_eid"]_vars

\* the tasks that published after missing and putting both keys, the store
\* never failing them
RacedThrough ==
  {i \in 1..Len(tasks) : /\ tasks[i].outcome = "published"
                         /\ tasks[i].eidOp = "put"
                         /\ tasks[i].ctsOp = "put"}

\* C2 (as amended): of n deliveries of one event processed concurrently, all
\* n can publish (up to n - 1 duplicates, one when n = 2); what bounds the
\* race is that a get which succeeds and finds a key some task has put ends
\* the task, so every task that does something visible had both its gets
\* miss or fail.
C2_RaceBound ==
  /\ [](\A i \in 1..Len(tasks) :
          tasks[i].outcome \in Visible
            => /\ tasks[i].eidOp \in {"put", "putfail", "getfail"}
               /\ tasks[i].ctsOp \in {"put", "putfail", "getfail"})
  /\ [][\A i \in 1..Len(tasks) : \A phase \in {"eid", "cts"} :
          (GetDone(i, phase) /\ store[KeyOf(tasks[i], phase)] > 0
             /\ OpOf(tasks'[i], phase) # "getfail")
            => tasks'[i].pc = "done" /\ tasks'[i].outcome = "dup_" \o phase]_vars

\* C2: two deliveries raced through both checks and published, the third
\* came after a put and stopped
C2_TwoPublished ==
  /\ Len(tasks) = 3
  /\ Cardinality(RacedThrough) = 2
  /\ \E i \in 1..3 : tasks[i].eidOp = "hit" /\ tasks[i].outcome = "dup_eid"

\* C2 as stated: the race lets at most one duplicate be published, that is at
\* most two publishes of the event.
C2_AsStated == Cardinality(RacedThrough) <= 2

\* C3 (as amended): of the message event and the app_mention event of one
\* post, an app_mention that carries files never reaches the cts check nor
\* does anything visible; otherwise the event whose cts:<channel>:<ts> check
\* comes second stops there, provided the store's get succeeds and the
\* other event's put of the key succeeded less than 300 seconds earlier.
C3_OnePerPost ==
  /\ [](\A i \in 1..Len(tasks) :
          (tasks[i].p.type = "app_mention" /\ Len(tasks[i].p.files) > 0)
            => /\ tasks[i].ctsOp = NoVal
               /\ tasks[i].pc \notin {"ctsGet", "ctsPut", "run"}
               /\ tasks[i].outcome \notin Visible)
  /\ [][\A i \in 1..Len(tasks) :
          (GetDone(i, "cts") /\ tasks'[i].ctsOp # "getfail"
             /\ hist[CtsKey(tasks[i].p)].putAge \in 0..(Window - 1))
            => tasks'[i].pc = "done" /\ tasks'[i].outcome = "dup_cts"]_vars

\* C3: the app_mention event of a text post was answered, and its message
\* event, processed afterwards, stopped at the cts check
C3_SiblingStopped ==
  /\ Len(tasks) = 2
  /\ tasks[1].p = PostTextMention /\ tasks[1].outcome \in Visible
  /\ tasks[2].p = PostTextMsg /\ tasks[2].alone
  /\ tasks[2].eidOp = "put" /\ tasks[2].ctsOp = "hit"
  /\ tasks[2].outcome = "dup_cts"

\* C3 as stated: of the two events of one post, processed one after the
\* other, at most one does something visible.
C3_AsStated ==
  \A i \in 1..Len(tasks) : \A j \in 1..Len(tasks) :
    (i < j /\ tasks[j].alone /\ SamePost(tasks[i].p, tasks[j].p))
      => ~(tasks[i].outcome \in Visible /\ tasks[j].outcome \in Visible)

\* the events processSlackEvent acts on once shouldProcess has accepted them
Actionable(e) ==
  /\ e.type \in {"message", "app_mention"}
  /\ ~(e.type = "app_mention" /\ Len(e.files) > 0)
  /\ ~(e.type = "message" /\ e.subtype \notin {NoVal, "file_share"})

\* C4: when shouldProcess has run for an event that has an event_id, the eid
\* phase of the dedupe is over (the key was put, or the store failed); a cts
\* key is read or written only by a task whose event shouldProcess accepted
\* and that is neither an app_mention with files nor a message with a
\* subtype other than file_share.
C4_PhaseOrder ==
  /\ [](\A i \in 1..Len(tasks) :
          /\ (tasks[i].decision # NoVal /\ tasks[i].p.event_id # NoVal)
               => tasks[i].eidOp \in {"put", "putfail", "getfail"}
          /\ (tasks[i].ctsOp # NoVal \/ tasks[i].pc \in {"ctsGet", "ctsPut"})
               => tasks[i].decision = "process" /\ Actionable(tasks[i].p))
  /\ [][\A k \in AllKeys :
          store'[k] # store[k]
            => \E i \in 1..Len(tasks) : \E phase \in {"eid", "cts"} :
                 /\ PutDone(i, phase) /\ KeyOf(tasks[i], phase) = k
                 /\ phase = "cts"
                      => tasks[i].decision = "process" /\ Actionable(tasks[i].p)]_vars

\* C4: an app_mention with files was accepted by shouldProcess after its eid
\* key was put, and ended without touching a cts key
C4_MentionWithFiles ==
  \E i \in 1..Len(tasks) :
    /\ tasks[i].outcome = "mention_with_files"
    /\ tasks[i].eidOp = "put" /\ tasks[i].decision = "process"
    /\ tasks[i].ctsOp = NoVal
    /\ store[EidKey(tasks[i].p)] = TTL /\ store[CtsKey(tasks[i].p)] = 0

\* where a task stands when dedupeSeen has returned false in the given phase
PassedTo(e, phase) ==
  IF phase = "eid" THEN "classify"
  ELSE IF HasChannelAndRoot(e) THEN "run"
  ELSE "done"

\* C5: when the store's get or put fails, in the eid or in the cts phase, the
\* task is not stopped as a duplicate and does not end with the store's
\* exception: it stands where a task whose get missed and whose put
\* succeeded stands.
C5_FailOpen ==
  [][\A i \in 1..Len(tasks) : \A phase \in {"eid", "cts"} :
       /\ ((GetDone(i, phase) \/ PutDone(i, phase))
              /\ OpOf(tasks'[i], phase) \in {"getfail", "putfail"})
            => /\ tasks'[i].pc = PassedTo(tasks[i].p, phase)
               /\ tasks'[i].outcome \in {NoVal, "no_channel"}
               /\ store' = store
       /\ (PutDone(i, phase) /\ OpOf(tasks'[i], phase) = "put")
            => /\ tasks'[i].pc = PassedTo(tasks[i].p, phase)
               /\ tasks'[i].outcome \in {NoVal, "no_channel"}]_vars

\* C5: a task whose eid get failed and whose cts put failed has published
C5_PublishedDespiteStore ==
  \E i \in 1..Len(tasks) :
    /\ tasks[i].eidOp = "getfail"
    /\ tasks[i].ctsOp = "putfail"
    /\ tasks[i].outcome = "published"

\* the tasks for which dedupeSeen has returned false on key k
PassedOn(k) ==
  {i \in 1..Len(tasks) : \E phase \in {"eid", "cts"} :
     /\ (phase = "eid" => tasks[i].p.event_id # NoVal)
     /\ KeyOf(tasks[i], phase) = k
     /\ OpOf(tasks[i], phase) \in {"put", "putfail", "getfail"}}

\* C6 (as amended): a key is present exactly when a put of it succeeded less
\* than 300 seconds ago, and then a task has passed the check on it and the
\* key lives for the rest of the 300 seconds; an absent key means only that
\* no put of it succeeded in the last 300 seconds (the event was never seen,
\* the key expired, the store failed, or a task is between get and put).
C6_StoreMeaning ==
  \A k \in AllKeys :
    /\ store[k] > 0 <=> hist[k].putAge \in 0..(Window - 1)
    /\ store[k] > 0
         => /\ store[k] = Window - hist[k].putAge
            /\ \E i \in PassedOn(k) : \E phase \in {"eid", "cts"} :
                 KeyOf(tasks[i], phase) = k /\ OpOf(tasks[i], phase) = "put"

\* C6: one key is TickSeconds into its life and another has expired
C6_LiveAndExpired ==
  \E k \in AllKeys : \E x \in AllKeys :
    /\ store[k] = TTL - TickSeconds /\ PassedOn(k) # {}
    /\ store[x] = 0 /\ hist[x].putAge >= Window

\* C6 as stated: a present key belongs to an event a task has passed the
\* check on, and when a key is absent either no task has passed the check on
\* it or its 300 seconds are over.
C6_AsStated ==
  \A k \in AllKeys :
    /\ store[k] > 0 => PassedOn(k) # {}
    /\ store[k] = 0 => (PassedOn(k) = {} \/ hist[k].putAge >= Window)

\* the rules of the trigger table, in their order; root is what the fetch of
\* the thread root gave, if one was made
TriggerRules(e, bot, root) ==
  << [applies |-> e.channel_type = "im", gives |-> "process"],
     [applies |-> e.type = "app_mention", gives |-> "process"],
     [applies |-> bot = NoVal, gives |-> "skip"],
     [applies |-> (e.user # NoVal /\ e.user = bot) \/ e.bot_id # NoVal, gives |-> "skip"],
     [applies |-> Mentions(e.text, bot), gives |-> "process"],
     [applies |-> e.thread_ts # NoVal /\ root = "mentions", gives |-> "process"],
     [applies |-> TRUE, gives |-> "skip"] >>

FirstThatApplies(rules) ==
  rules[CHOOSE n \in 1..Len(rules) :
          rules[n].applies /\ \A m \in 1..(n - 1) : ~rules[m].applies].gives

\* C7: whenever shouldProcess answers, its answer is that of the first rule
\* of the trigger table that applies; a message in a channel that does not
\* mention the bot and has no thread root mentioning it is not processed, and
\* a reply whose fetched thread root mentions the bot is processed.
C7_TriggerTable ==
  \A i \in 1..Len(tasks) :
    LET t == tasks[i] IN
    t.decision \in {"process", "skip"}
      => /\ t.decision = FirstThatApplies(TriggerRules(t.p, extractBotUserId(t.p), t.root))
         /\ (t.p.type = "message" /\ t.p.channel_type = "channel"
                /\ ~Mentions(t.p.text, BotUser) /\ t.root # "mentions")
              => t.decision = "skip"
         /\ t.root = "mentions" => t.decision = "process"

\* C7: a thread reply that does not mention the bot was accepted because the
\* root of its thread does
C7_ReplyUnderMention ==
  \E i \in 1..Len(tasks) :
    /\ tasks[i].p.type = "message" /\ tasks[i].p.thread_ts # NoVal
    /\ ~Mentions(tasks[i].p.text, BotUser)
    /\ tasks[i].root = "mentions"
    /\ tasks[i].decision = "process"

\* C8 as stated: an event written by the bot itself, or carrying a bot_id, is
\* not accepted by shouldProcess and leads to nothing visible.
C8_NoSelfTrigger ==
  \A i \in 1..Len(tasks) :
    ((tasks[i].p.user # NoVal /\ tasks[i].p.user = extractBotUserId(tasks[i].p))
       \/ tasks[i].p.bot_id # NoVal)
      => tasks[i].decision # "process" /\ tasks[i].outcome \notin Visible

\* C9 as stated: no task ends with an exception leaving processSlackEvent.
C9_NothingEscapes ==
  \A i \in 1..Len(tasks) : tasks[i].outcome \notin {"threw_root", "threw_lookup"}

\* a validly signed POST /slack/events request with an event_callback payload
IsEventCallback(r) ==
  /\ r.method = "POST" /\ r.path = "/slack/events"
  /\ verifySlackSignature(r, env.secret) = "true"
  /\ r.json /\ r.type = "event_callback"

BadSignature(r) ==
  \/ ~r.tsHeader.present \/ ~r.sigHeader.present
  \/ ~r.tsHeader.digits
  \/ Abs(Now - r.tsHeader.value) > Freshness
  \/ r.sigHeader # SigHeader("v0=", Secret, r.tsHeader, BodyOf(r))

\* nothing has happened behind the response: no task, no key read or written
Quiet ==
  /\ tasks = <<>> /\ http.task = 0
  /\ \A k \in AllKeys : store[k] = 0 /\ hist[k] = NoHist

\* C11 (as amended): a POST request to a path other than /healthz whose
\* signature is bad, missing or stale starts no task and touches no key; it
\* is answered 401, except that it is answered 500 when the headers are
\* present and fresh and the HMAC cannot be computed.
C11_BadSignatureRejected ==
  (http.n > 0 /\ http.req.method = "POST" /\ http.req.path # "/healthz"
     /\ BadSignature(http.req))
    => /\ Quiet
       /\ http.status = IF http.valid = Throw THEN 500 ELSE 401
       /\ env.secret = Secret => http.status = 401

\* C11: an event_callback signed with another key was answered 401
C11_ForgedCallback ==
  /\ http.n = 1 /\ http.req.method = "POST" /\ http.req.path = "/slack/events"
  /\ http.req.json /\ http.req.type = "event_callback"
  /\ http.req.sigHeader.present /\ http.req.sigHeader.digest[1] = "guess"
  /\ http.status = 401 /\ Quiet

\* C11 as stated, for a Worker whose signing secret is set: a POST request
\* whose signature is bad, missing or stale is answered 401 and nothing
\* happens behind it.
C11_AsStated ==
  (http.n > 0 /\ http.req.method = "POST" /\ BadSignature(http.req)
     /\ env.secret = Secret)
    => http.status = 401 /\ Quiet

\* C12 as stated: whenever verifySlackSignature returns, it returns true
\* exactly when both headers are present, the timestamp header is an integer
\* within Freshness seconds of now, and the signature header is "v0=" and the
\* HMAC of this timestamp header and body under the Worker's secret.
C12_ExactlyWhenValid ==
  http.valid \in {"true", "false"}
    => (http.valid = "true"
          <=> /\ http.req.tsHeader.present /\ http.req.sigHeader.present
              /\ http.req.tsHeader.digits /\ ~http.req.tsHeader.junk
              /\ Abs(Now - http.req.tsHeader.value) <= Freshness
              /\ http.req.sigHeader
                   = SigHeader("v0=", env.secret, http.req.tsHeader, BodyOf(http.req)))

\* C13 as stated: verifySlackSignature never throws, and no request is
\* answered 500 because of it.
C13_VerifierNeverThrows ==
  http.valid # Throw /\ http.status # 500

\* C14: a validly signed POST /slack/events whose payload is a
\* url_verification with a challenge is answered 200 with the body
\* {"challenge":"<the challenge>"}; no task is started and no key is touched.
C14_ChallengeEchoed ==
  (http.n > 0 /\ http.req.method = "POST" /\ http.req.path = "/slack/events"
     /\ http.valid = "true" /\ http.req.json
     /\ http.req.type = "url_verification" /\ http.req.challenge # NoVal)
    => /\ http.status = 200
       /\ http.req.challenge = "xyz" => http.body = "{\"challenge\":\"xyz\"}"
       /\ Quiet

\* C14: the challenge "xyz" has been answered
C14_XyzAnswered ==
  /\ http.n = 1 /\ http.req.type = "url_verification" /\ http.req.challenge = "xyz"
  /\ http.status = 200 /\ http.body = "{\"challenge\":\"xyz\"}"

\* C15 (as amended): a request to /healthz is answered 200; any other request
\* that is not a POST is answered 400; a POST to a path other than /healthz
\* and /slack/events is answered 400 only when its signature verifies, 401
\* when it does not and 500 when the verifier throws; 401 is returned exactly
\* when the verifier returned false, and 500 exactly when it threw.
C15_StatusCodes ==
  http.n > 0
    => /\ http.req.path = "/healthz" => http.status = 200
       /\ (http.req.method # "POST" /\ http.req.path # "/healthz") => http.status = 400
       /\ (http.req.method = "POST" /\ http.req.path \notin {"/healthz", "/slack/events"})
            => http.status = (IF http.valid = "true" THEN 400
                              ELSE IF http.valid = "false" THEN 401 ELSE 500)
       /\ http.status = 401 <=> http.valid = "false"
       /\ http.status = 500 <=> http.valid = Throw
       /\ http.status \in {200, 400, 401, 500}

\* C15: a POST to an unknown path with a forged signature was answered 401
C15_UnknownPathForged ==
  /\ http.n = 1 /\ http.req.method = "POST" /\ http.req.path = "/other"
  /\ http.req.sigHeader.present /\ http.req.sigHeader.digest[1] = "guess"
  /\ http.valid = "false" /\ http.status = 401

\* C15 as stated, for a Worker whose signing secret is set and leaving
\* /healthz aside: every request that is not a POST, and every request to a
\* path other than /slack/events, is answered 400.
C15_AsStated ==
  (http.n > 0 /\ env.secret = Secret /\ http.req.path # "/healthz")
    => /\ http.req.method # "POST" => http.status = 400
       /\ http.req.path # "/slack/events" => http.status = 400

----------------------------------------------------------------------------
(* The image block *)

\* the generative call of the run followed in `call`, once step 2 was reached
Gen == call.batch.gen
Called == call.pc = "batched" /\ Len(Gen.sent) > 0

\* the current message's image attachments, in order, duplicates included
Attached == CollectCurrent(call.e.files)

\* the text of the event after sanitization
Sanitized == sanitizeSlackText(call.e.text, extractBotUserId(call.e))

\* t holds the elements of s it kept in the order of s
RECURSIVE IsSubSeq(_, _)
IsSubSeq(t, s) ==
  IF t = <<>> THEN TRUE
  ELSE IF s = <<>> THEN FALSE
  ELSE IF Head(t) = Head(s) THEN IsSubSeq(Tail(t), Tail(s))
  ELSE IsSubSeq(t, Tail(s))

\* position of the first element of s with this url
FirstAt(s, url) == CHOOSE i \in 1..Len(s) : s[i].url = url /\ \A j \in 1..(i - 1) : s[j].url # url

\* C16: a call to the generative API sends the request for an image; it
\* sends a second request exactly when the first was answered without an
\* image, and that request has the same prompt and the same images with
\* the output mode relaxed to text and image; when the second is answered
\* without an image too the call fails with a non-empty message; there is
\* never a third request
C16_OneFallback ==
  Called =>
    /\ Len(Gen.sent) <= 2
    /\ Gen.sent[1].modalities = ImageOnly
    /\ (Len(Gen.sent) = 2) <=> (Gen.got[1] = "no_image")
    /\ Len(Gen.sent) = 2 => Gen.sent[2] = [Gen.sent[1] EXCEPT !.modalities = TextAndImage]
    /\ (Len(Gen.sent) = 2 /\ Gen.got[2] = "no_image") => (Gen.threw /\ Gen.error # "")
    /\ (Gen.got[Len(Gen.got)] = "image") <=> ~Gen.threw

\* a combined call whose two requests were both answered without an image
C16_BothWithoutImage ==
  /\ Called
  /\ call.batch.mode = "combined"
  /\ Gen.got = <<"no_image", "no_image">>

\* C17 as stated: more than one candidate means the multi-image call with
\* every candidate, and the single-image call is made only for one candidate
C17_AsStated ==
  call.pc = "batched" =>
    /\ Len(call.batch.items) > 1 =>
         (call.batch.mode = "combined" /\ Gen.sent[1].images = call.batch.items)
    /\ call.batch.mode = "single" => Len(call.batch.items) = 1

\* C17: with GEMINI_API_KEY set, the call is chosen by the number of images
\* that were downloaded: the multi-image call with all of them, in the order
\* of the candidates, when more than one was, the single-image call with it
\* when exactly one was; without the key no generative call is made
C17_ByDownloaded ==
  call.pc = "batched" /\ call.batch.mode # "none" =>
    /\ IsSubSeq(call.batch.inputs, call.batch.items)
    /\ (call.batch.mode = "combined") <=> (env.key /\ Len(call.batch.inputs) > 1)
    /\ (call.batch.mode = "single") <=> (env.key /\ Len(call.batch.inputs) = 1)
    /\ (call.batch.mode = "echo") <=> ~env.key
    /\ call.batch.mode = "combined" => Gen.sent[1].images = call.batch.inputs
    /\ call.batch.mode = "single" => Gen.sent[1].images = <<call.batch.inputs[1]>>
    /\ call.batch.mode = "echo" => Gen.sent = <<>>

\* two candidates of which one was downloaded, sent in a single-image call
C17_OneOfTwoDownloaded ==
  /\ Called
  /\ Len(call.batch.items) = 2
  /\ Len(call.batch.inputs) = 1
  /\ call.batch.mode = "single"

\* C18: when the event has no image attachment and the lookup answered
\* without a previous bot image, the guidance message is posted (the failure
\* of the post is swallowed) and the run ends there: nothing was downloaded,
\* no generative call was made, processBatchImages was not entered
C18_GuidanceOnly ==
  (call.pc # "idle" /\ ~call.collected.threw /\ Attached = <<>> /\ call.collected.prev = <<>>)
    => (call.pc \in Guidance /\ call.batch = NoBatch)

\* a reply without attachment, in a thread without a bot image, was guided
C18_Guided ==
  /\ call.pc = "guided"
  /\ call.e.thread_ts # NoVal
  /\ call.collected.lookedUp

\* C19: the lookup of the previous bot image is made only for a sanitized
\* text that is not empty
C19_LookupOnlyWithText ==
  (call.pc # "idle" /\ call.collected.lookedUp) => Sanitized # <<>>

\* C20: the list handed to processBatchImages has no two entries with one
\* url, holds the url of the previous bot image and of every image attached,
\* in the order they were first seen, the previous bot image first
C20_InputList ==
  call.pc \in {"batch", "batched"} =>
    LET items == call.collected.items
        all == call.collected.prev \o Attached
    IN  /\ \A i, j \in 1..Len(items) : items[i].url = items[j].url => i = j
        /\ {items[i].url : i \in 1..Len(items)} = {all[i].url : i \in 1..Len(all)}
        /\ \A i, j \in 1..Len(items) :
             i < j => FirstAt(all, items[i].url) < FirstAt(all, items[j].url)
        /\ call.collected.prev # <<>> => items[1] = call.collected.prev[1]
        /\ (call.collected.prev = <<ImgA>> /\ Attached = <<ImgA, ImgA, File("b", "image/jpeg")>>)
             => items = <<ImgA, File("b", "image/jpeg")>>
        /\ call.pc = "batched" => call.batch.items = items

\* attachments a, a, b and the previous bot image a went to processBatchImages
C20_AabWithPrevA ==
  /\ call.pc = "batched"
  /\ call.collected.prev = <<ImgA>>
  /\ Attached = <<ImgA, ImgA, File("b", "image/jpeg")>>

----------------------------------------------------------------------------
(* Publishing and reporting *)

\* the run followed in `call` has ended
Ended ==
  call.pc \in {"threw_lookup", "guided", "guide_unposted", "published", "complete_not_ok",
               "error_posted", "error_unposted"}

\* the chat.postMessage of the error was attempted
ErrorReported == call.pc \in {"error_posted", "error_unposted"}

\* a step of the upload failed: a call threw, or answered not ok
UploadFailed ==
  /\ call.upload.steps # <<>>
  /\ call.upload.got[Len(call.upload.got)] # "ok"

\* C21: when a step of the upload fails, files.completeUploadExternal
\* answering ok=false included, the run ends with the error message sent to
\* the thread
C21_UploadFailureReported ==
  (Ended /\ UploadFailed) => ErrorReported

\* C22: the error message posted after the generative call failed on its
\* fallback request holds the correlation id of that call
C22_ErrorCarriesGid ==
  (call.pc = "error_posted" /\ Len(call.batch.gen.got) = 2 /\ call.batch.gen.threw)
    => call.batch.gen.gid \in call.posts[Len(call.posts)].values

\* C25: a run shows the thread at most one result, the output image, the
\* guidance or the error; files.completeUploadExternal is called at most
\* once and names one file, however many images went in; once it was called
\* without throwing no error message follows
C25_OneResult ==
  /\ Len(call.posts) <= 1
  /\ Len(call.upload.files) <= 1
  /\ Len(SelectSeq(call.upload.steps, LAMBDA c : c = "files.completeUploadExternal")) <= 1
  /\ (Len(call.upload.steps) = 3 /\ call.upload.got[3] = "ok")
       => (call.pc = "published" /\ call.posts = <<Posted("image", "")>>
           /\ call.upload.files = <<"outName">>)
  /\ (\E i \in 1..Len(call.posts) : call.posts[i].kind = "image") => ~ErrorReported
  /\ ErrorReported => (call.batch.threw \/ call.upload.outcome = "threw")

\* one image published out of a combined call on several inputs
C25_OneImageFromMany ==
  /\ call.pc = "published"
  /\ call.batch.mode = "combined"
  /\ Len(call.batch.inputs) > 1
  /\ call.posts = <<Posted("image", "")>>

\* C26: the calls of the upload are a prefix of getUploadURLExternal, byte
\* transfer, completeUploadExternal; each but the last answered ok, so a
\* step is made only after the one before succeeded and nothing follows a
\* failed step
C26_UploadInOrder ==
  /\ \E n \in 0..3 :
       call.upload.steps =
         SubSeq(<<"files.getUploadURLExternal", "upload", "files.completeUploadExternal">>, 1, n)
  /\ Len(call.upload.got) = Len(call.upload.steps)
  /\ \A i \in 1..(Len(call.upload.steps) - 1) : call.upload.got[i] = "ok"

\* a byte transfer that answered not ok ended the upload
C26_TransferFailed ==
  /\ Ended
  /\ call.upload.steps = <<"files.getUploadURLExternal", "upload">>
  /\ call.upload.got = <<"ok", "not_ok">>

----------------------------------------------------------------------------
(* The prompt *)

Prompted == call.pc = "prompted"

\* the token stands for a link
IsLink(tok) == tok.k = "br" /\ tok.sigil = NoVal

\* what is left of a text when links with a label become their label and
\* every other bracketed token is removed
RECURSIVE WithoutMarkup(_)
WithoutMarkup(text) ==
  IF text = <<>> THEN <<>>
  ELSE (IF Head(text).k = "word" THEN <<Head(text)>>
        ELSE IF IsLink(Head(text)) /\ Head(text).label # NoVal THEN <<Word(Head(text).label)>>
        ELSE <<>>) \o WithoutMarkup(Tail(text))

\* C23: the prompt is never empty, and it is the fixed instruction alone
\* when nothing is left of the text after sanitization
C23_PromptNeverEmpty ==
  Prompted =>
    /\ call.text.prompt # <<>>
    /\ call.text.sanitized = <<>> => call.text.prompt = <<JaImageOnly>>

\* a text made only of Slack markup got the fixed instruction as its prompt
C23_OnlyMarkup ==
  /\ Prompted
  /\ call.text.raw = <<At("U123"), Br("#", "C1", NoVal)>>
  /\ call.text.prompt = <<JaImageOnly>>

\* C24: sanitizeSlackText turns links with a label into the label and
\* removes user mentions, channel mentions and every other bracketed token;
\* "<@U123> please <https://x|fix> this" becomes "please fix this", to which
\* enforceImageOnly appends the instruction
C24_MarkupRemoved ==
  Prompted =>
    /\ call.text.sanitized = WithoutMarkup(call.text.raw)
    /\ call.text.raw = <<At("U123"), Word("please"), Br(NoVal, "https://x", "fix"), Word("this")>>
         => /\ call.text.sanitized = <<Word("please"), Word("fix"), Word("this")>>
            /\ call.text.prompt = <<Word("please"), Word("fix"), Word("this"), JaImageOnly>>

----------------------------------------------------------------------------
(* The previous bot image *)

LookedUp == call.pc = "looked_up"

Largest(S) == CHOOSE n \in S : \A m \in S : m <= n

\* the last image among files, none when there is no image
LatestImage(files) ==
  LET I == {j \in 1..Len(files) : IsImageFile(files[j])}
  IN  IF I = {} THEN <<>> ELSE <<files[Largest(I)]>>

\* the last image of the latest message among those at the positions in From
\* that hold an image
ImageOfLatest(msgs, From) ==
  LET I == {i \in From : LatestImage(msgs[i].files) # <<>>}
  IN  IF I = {} THEN <<>> ELSE LatestImage(msgs[Largest(I)].files)

\* the replies (not the root) written by the bot itself
RepliesOfTheBot ==
  {i \in 1..Len(call.lookup.messages) :
     /\ call.lookup.messages[i].ts # call.lookup.ts
     /\ call.lookup.messages[i].user = BotUser}

\* the replies the code takes for the bot's: those of user botUserId when the
\* payload named the bot, those carrying any bot_id when it did not
RepliesTakenForTheBot ==
  {i \in 1..Len(call.lookup.messages) :
     /\ call.lookup.messages[i].ts # call.lookup.ts
     /\ IF call.lookup.botUserId # NoVal
        THEN call.lookup.messages[i].user = call.lookup.botUserId
        ELSE call.lookup.messages[i].bot_id # NoVal}

----------------------------------------------------------------------------
(* Events that are let go *)

\* an edit or another message event with a subtype that is not file_share
OtherSubtype(e) == e.type = "message" /\ e.subtype \notin {NoVal, "file_share"}

\* C28: the task of a message event with a subtype other than file_share
\* that shouldProcess accepted ends there: it never reads or writes its cts
\* key, never enters the block that reacts, downloads, generates, uploads
\* and posts
C28_SubtypeIgnored ==
  \A i \in 1..Len(tasks) :
    (OtherSubtype(tasks[i].p) /\ tasks[i].decision = "process")
      => /\ tasks[i].pc = "done" /\ tasks[i].outcome = "ignored_subtype"
         /\ tasks[i].ctsOp = NoVal
         /\ HasCtsKey(tasks[i].p)
              => store[CtsKey(tasks[i].p)] = 0 /\ hist[CtsKey(tasks[i].p)] = NoHist

\* an edited direct message was accepted and let go, its eid key written
C28_EditInDm ==
  \E i \in 1..Len(tasks) :
    /\ tasks[i].p.subtype = "message_changed" /\ tasks[i].p.channel_type = "im"
    /\ tasks[i].decision = "process" /\ tasks[i].outcome = "ignored_subtype"
    /\ tasks[i].eidOp = "put"

\* the last request was a POST /slack/events whose signature verified
SignedEvents ==
  /\ http.n > 0
  /\ http.req.method = "POST" /\ http.req.path = "/slack/events"
  /\ http.valid = "true"

\* C29: a validly signed POST /slack/events whose body is not JSON, or whose
\* payload is neither a url_verification nor an event_callback, is answered
\* 200 "ok" and starts no task; no validly signed POST /slack/events is
\* answered 500
C29_OtherPayloads ==
  SignedEvents =>
    /\ http.status = 200
    /\ (~http.req.json \/ http.req.type \notin {"url_verification", "event_callback"})
         => (http.body = "ok" /\ Quiet)

\* a body that is not JSON was answered 200
C29_NotJson ==
  /\ SignedEvents /\ ~http.req.json
  /\ http.status = 200 /\ http.body = "ok"

\* the message event Slack sends for the post of an app_mention event
MessageSibling(e) == [e EXCEPT !.type = "message", !.subtype = "file_share"]

\* C30: when the app_mention event of a channel post that mentions the bot
\* is let go because it carries files, the message event of the same post is
\* accepted by shouldProcess and goes on to the image block
C30_SiblingProcessed ==
  \A i \in 1..Len(tasks) :
    (tasks[i].outcome = "mention_with_files" /\ tasks[i].p.channel_type = "channel"
       /\ Mentions(tasks[i].p.text, BotUser))
      => LET m == MessageSibling(tasks[i].p)
         IN  /\ shouldProcess(m, extractBotUserId(m), ApiNotOk) = "process"
             /\ AfterDecision(m, TRUE) \in {"cts", "act"}

----------------------------------------------------------------------------
(* Downloads *)

\* processBatchImages has run its downloads
Downloaded == call.pc \notin {"idle", "batch"} /\ call.batch.items # <<>>

\* the candidates whose download answered ok, in order
RECURSIVE AnsweredOk(_, _)
AnsweredOk(items, got) ==
  IF items = <<>> \/ got = <<>> THEN <<>>
  ELSE (IF Head(got) = "ok" THEN <<Head(items)>> ELSE <<>>)
         \o AnsweredOk(Tail(items), Tail(got))

DownloadThrew == \E i \in 1..Len(call.batch.got) : call.batch.got[i] = "throw"

\* C32 as stated: a generative call is made only with a downloaded image;
\* the images whose download failed are left out and the others used; when
\* every download failed processBatchImages fails with "no inputs
\* downloaded" before any generative or upload call, and the error is sent
\* to the thread
C32_AsStated ==
  Downloaded =>
    /\ call.batch.gen.sent # <<>> => call.batch.inputs # <<>>
    /\ call.batch.inputs = AnsweredOk(call.batch.items, call.batch.got)
    /\ (\A i \in 1..Len(call.batch.got) : call.batch.got[i] # "ok")
         => /\ call.batch.error = "no inputs downloaded"
            /\ call.batch.gen.sent = <<>> /\ call.upload.steps = <<>>
            /\ Ended => ErrorReported

\* C32: a generative call is made only with images that were downloaded; a
\* download answered with a status that is not ok is left out and the others
\* are used; when every download is answered so processBatchImages fails
\* with "no inputs downloaded", and when the fetch of a download rejects it
\* fails at once with that rejection and uses none of the images; in both
\* cases no generative or upload call is made and the error is sent to the
\* thread
C32_OnlyDownloaded ==
  Downloaded =>
    /\ call.batch.gen.sent # <<>>
         => /\ call.batch.inputs # <<>>
            /\ \A i \in 1..Len(call.batch.gen.sent) :
                 \A j \in 1..Len(call.batch.gen.sent[i].images) :
                   \E k \in 1..Len(call.batch.items) :
                     /\ call.batch.items[k] = call.batch.gen.sent[i].images[j]
                     /\ call.batch.got[k] = "ok"
    /\ ~DownloadThrew
         => /\ Len(call.batch.got) = Len(call.batch.items)
            /\ call.batch.inputs = AnsweredOk(call.batch.items, call.batch.got)
            /\ call.batch.inputs = <<>> => call.batch.error = "no inputs downloaded"
    /\ DownloadThrew
         => /\ call.batch.got[Len(call.batch.got)] = "throw"
            /\ call.batch.error = FetchFailed
    /\ (DownloadThrew \/ call.batch.inputs = <<>>)
         => /\ call.batch.gen.sent = <<>> /\ call.upload.steps = <<>>
            /\ Ended => ErrorReported

\* the first of two downloads was answered ok and the fetch of the second
\* rejected: nothing was generated and the error was posted
C32_SecondDownloadThrew ==
  /\ call.pc = "error_posted"
  /\ call.batch.got = <<"ok", "throw">>
  /\ call.batch.gen.sent = <<>>
  /\ call.posts = <<Posted("error", FetchFailed)>>

----------------------------------------------------------------------------
(* Whose key stops an event *)

\* the events of tasks i and j share what the key of this phase is made of
SameSource(i, j, phase) ==
  IF phase = "eid" THEN tasks[i].p.event_id = tasks[j].p.event_id
  ELSE tasks[i].p.channel = tasks[j].p.channel /\ tasks[i].p.ts = tasks[j].p.ts

\* C31: a task is stopped as a duplicate only at a get that finds its own
\* key in the store, and that key was put by the task of an event with the
\* same event_id (eid phase) or the same channel and ts (cts phase); events
\* that differ in both are never stopped by one another, however their
\* tasks interleave
C31_OnlyOwnKeys ==
  /\ [][\A i \in 1..Len(tasks) : \A phase \in {"eid", "cts"} :
          (GetDone(i, phase) /\ tasks'[i].outcome = "dup_" \o phase)
            => /\ store[KeyOf(tasks[i], phase)] > 0
               /\ \E j \in 1..Len(tasks) :
                    /\ j # i /\ SameSource(i, j, phase)
                    /\ OpOf(tasks[j], phase) = "put"]_vars
  /\ [](\A i \in 1..Len(tasks) :
          tasks[i].outcome \in {"dup_eid", "dup_cts"}
            => \E j \in 1..Len(tasks) :
                 j # i /\ (SameSource(i, j, "eid") \/ SameSource(i, j, "cts")))

\* two events of different posts in one channel both went through, their
\* tasks interleaved
C31_BothWentThrough ==
  /\ Len(tasks) = 2
  /\ tasks[1].p = PostFileMsg /\ tasks[2].p = PostTextMsg
  /\ ~tasks[2].alone
  /\ tasks[1].ctsOp = "put" /\ tasks[2].ctsOp = "put"
  /\ tasks[1].outcome = "published" /\ tasks[2].outcome \in Visible

====
